---- MODULE Spec2Model ----
(***************************************************************************)
(* Model of the browser platform adapter (browserPlatform) and of the      *)
(* initialization shim (index.js) of the JavaScript client SDK.            *)
(*                                                                         *)
(* JavaScript values are modelled by tagged strings: "undefined", "null",  *)
(* "true", "false", "n:<k>" for the number k and "s:<t>" for the string t, *)
(* so that strict equality (===) is equality of the tagged strings.        *)
(***************************************************************************)
EXTENDS Integers, Sequences, FiniteSets, TLC

VARIABLES
    host,         \* what the code probes: GLOBAL, document, console, and whether the
                  \* shared core's emitter.off finds the goals listener (offRemoves)
    options,      \* the options argument of initialize / makeBrowserPlatform
    built,        \* "unbuilt" | "built" | "threw": outcome of makeBrowserPlatform
    ret,          \* the platform descriptor makeBrowserPlatform returned
    hasCors,      \* the closure variable hasCors of httpAllowsPost
    postResults,  \* the values httpAllowsPost returned, in call order
    fetchReq,     \* the promise httpRequest (fetch strategy) returned, and its fate
    dntResult,    \* what the last isDoNotTrack() call read and returned
    clients,      \* one record per initialize call that returned a client
    handler,      \* the event listener now on the stack (single-threaded host)
    lastReq,      \* the last call of a descriptor's legacy httpRequest
    calls         \* counters of entry-point calls, warnings and host events

vars == <<host, options, built, ret, hasCors, postResults, fetchReq, dntResult,
          clients, handler, lastReq, calls>>

----------------------------------------------------------------------------
(* Bounds of the model *)

MaxCalls == 3

MaxClients == 2

MaxFlushRequests == 2

MaxObservers == 2

----------------------------------------------------------------------------
(* JavaScript values and coercions *)

DntValues == {"undefined", "null", "true", "false", "n:1", "n:0", "s:1", "s:0",
              "s:yes", "s:unspecified"}

\* ToBoolean of the tagged values used in this model
Truthy(v) == v \notin {"undefined", "null", "false", "n:0", "s:"}

\* ToNumber of a boolean
BoolToNumber(b) == IF b THEN 1 ELSE 0

\* the bitwise AND (&) of two non-negative integers
RECURSIVE BitAnd(_, _)
BitAnd(a, b) ==
    IF a = 0 \/ b = 0 THEN 0
    ELSE (IF a % 2 = 1 /\ b % 2 = 1 THEN 1 ELSE 0) + 2 * BitAnd(a \div 2, b \div 2)

\* ToBoolean of a number
NumberTruthy(n) == n # 0

----------------------------------------------------------------------------
(* The host *)

XhrKinds == {"absent", "cors", "nocors"}

PolyfillKinds == {"absent", "notFunction", "function", "functionOptions", "functionMethod"}

StorageKinds == {"throws", "absent", "present"}

DefaultHost ==
    [globalBound |-> TRUE, xhr |-> "cors", fetch |-> TRUE, eventSource |-> TRUE,
     polyfill |-> "absent", localStorage |-> "present",
     navigator |-> TRUE, navDoNotTrack |-> "undefined", msDoNotTrack |-> "undefined",
     globalDoNotTrack |-> "undefined",
     hasDOM |-> TRUE, readyState |-> "complete", visibilityState |-> "visible",
     loadFired |-> TRUE, consoleWarn |-> TRUE, offRemoves |-> TRUE]

DefaultOptions ==
    [present |-> TRUE, useReport |-> FALSE, disableSyncEventPost |-> "undefined",
     fetchGoals |-> TRUE]

\* options && options.<field>
OptionField(o, v) == IF o.present THEN v ELSE "undefined"

----------------------------------------------------------------------------
(* makeBrowserPlatform *)

\* global.XMLHttpRequest / GLOBAL.fetch: which httpRequest is installed
HttpStrategy(h) ==
    IF h.xhr # "absent" THEN "legacy"
    ELSE IF h.fetch THEN "fetch"
    ELSE "absent"

LocalStorageFieldNullBoth(h) ==
    IF h.localStorage = "present" THEN "record" ELSE "null"

\* the try/catch around GLOBAL.localStorage
LocalStorageField(h) ==
    IF h.localStorage = "throws" THEN "null"
    ELSE IF h.localStorage = "present" THEN "record"
    ELSE "undefined"

\* useReport && typeof EventSourcePolyfill === 'function' && supportedOptions && .method
PolyfillSelected(h, o) ==
    /\ Truthy(OptionField(o, IF o.useReport THEN "true" ELSE "false"))
    /\ h.polyfill = "functionMethod"

EventSourceConstructor(h, o) ==
    IF PolyfillSelected(h, o) THEN "EventSourcePolyfill"
    ELSE IF h.eventSource THEN "EventSource" ELSE "undefined"

HasEventSourceFactoryAlways(h, o) == TRUE

\* if (GLOBAL.EventSource) { ret.eventSourceFactory = ...; ret.eventSourceIsActive = ... }
HasEventSourceFactory(h, o) == h.eventSource

\* The descriptor.  global.XMLHttpRequest is read through the identifier `global`,
\* which throws a ReferenceError where that identifier is not bound; where it is
\* bound it is the same object as GLOBAL.
MakeBrowserPlatform(h, o) ==
    [threw |-> ~h.globalBound,
     synchronousFlush |-> FALSE,
     httpRequest |-> HttpStrategy(h),
     disableSyncFlush |-> OptionField(o, o.disableSyncEventPost),
     localStorage |-> LocalStorageField(h),
     eventSourceAllowsReport |-> PolyfillSelected(h, o),
     eventSourceConstructor |-> EventSourceConstructor(h, o),
     eventSourceFactory |-> HasEventSourceFactory(h, o),
     eventSourceIsActive |-> HasEventSourceFactory(h, o)]

NoPlatform == MakeBrowserPlatform(DefaultHost, DefaultOptions)

BuildPlatform ==
    /\ built = "unbuilt"
    /\ ret' = MakeBrowserPlatform(host, options)
    /\ built' = IF ret'.threw THEN "threw" ELSE "built"
    /\ UNCHANGED <<host, options, hasCors, postResults, fetchReq, dntResult,
                   clients, handler, lastReq, calls>>

----------------------------------------------------------------------------
(* httpAllowsPost *)

\* the value of hasCors after the body of httpAllowsPost ran
HasCorsAfter(memo, h) ==
    IF memo = "undefined"
    THEN IF h.xhr # "absent" THEN (IF h.xhr = "cors" THEN "true" ELSE "false")
         ELSE IF h.fetch THEN "true"
         ELSE "undefined"
    ELSE memo

HttpAllowsPost ==
    /\ built = "built"
    /\ Len(postResults) < MaxCalls
    /\ hasCors' = HasCorsAfter(hasCors, host)
    /\ postResults' = Append(postResults, hasCors')
    /\ UNCHANGED <<host, options, built, ret, fetchReq, dntResult,
                   clients, handler, lastReq, calls>>

\* the page (or a test) removes, adds or replaces XMLHttpRequest
HostSetXhr ==
    /\ \E k \in XhrKinds : k # host.xhr /\ host' = [host EXCEPT !.xhr = k]
    /\ UNCHANGED <<options, built, ret, hasCors, postResults, fetchReq, dntResult,
                   clients, handler, lastReq, calls>>

\* the page (or a test) removes or adds fetch
HostSetFetch ==
    /\ host' = [host EXCEPT !.fetch = ~host.fetch]
    /\ UNCHANGED <<options, built, ret, hasCors, postResults, fetchReq, dntResult,
                   clients, handler, lastReq, calls>>

----------------------------------------------------------------------------
(* httpRequest, fetch strategy *)

Statuses == {200, 404}

Bodies == {"s:ok", "s:"}

HeaderKeys == {"date", "etag"}

Responses == [status : Statuses, text : Bodies, headers : [HeaderKeys -> {"s:a", "null"}]]

\* the uniform response record {status, header(key), body}
AdaptedResponse(res) ==
    [kind |-> "object", status |-> res.status, header |-> res.headers, body |-> res.text]

\* The callback given to fetch(...).then: it starts res.text().then(...), whose
\* promise resolves to the adapted record, and returns nothing.
FetchThenCallback(res) ==
    [returned |-> [kind |-> "undefined"], inner |-> AdaptedResponse(res)]

NoFetchReq == [state |-> "none"]

FetchHttpRequest ==
    /\ built = "built"
    /\ ret.httpRequest = "fetch"
    /\ fetchReq.state = "none"
    /\ fetchReq' = IF host.fetch THEN [state |-> "pending"] ELSE [state |-> "threw"]
    /\ UNCHANGED <<host, options, built, ret, hasCors, postResults, dntResult,
                   clients, handler, lastReq, calls>>

FetchResponds ==
    /\ fetchReq.state = "pending"
    /\ \E res \in Responses :
         fetchReq' = [state |-> "resolved", response |-> res,
                      value |-> FetchThenCallback(res).returned,
                      inner |-> FetchThenCallback(res).inner]
    /\ UNCHANGED <<host, options, built, ret, hasCors, postResults, dntResult,
                   clients, handler, lastReq, calls>>

FetchRejects ==
    /\ fetchReq.state = "pending"
    /\ fetchReq' = [state |-> "rejected"]
    /\ UNCHANGED <<host, options, built, ret, hasCors, postResults, dntResult,
                   clients, handler, lastReq, calls>>

----------------------------------------------------------------------------
(* isDoNotTrack *)

DntSourceGlobalFirst(h) ==
    IF h.globalDoNotTrack # "undefined" THEN "global"
    ELSE IF h.navigator /\ h.navDoNotTrack # "undefined" THEN "navigator.doNotTrack"
    ELSE "navigator.msDoNotTrack"

\* which host value the if / else if / else chain reads
DntSource(h) ==
    IF h.navigator /\ h.navDoNotTrack # "undefined" THEN "navigator.doNotTrack"
    ELSE IF h.navigator /\ h.msDoNotTrack # "undefined" THEN "navigator.msDoNotTrack"
    ELSE "global"

DntFlag(h) ==
    IF DntSource(h) = "navigator.doNotTrack" THEN h.navDoNotTrack
    ELSE IF DntSource(h) = "navigator.msDoNotTrack" THEN h.msDoNotTrack
    ELSE h.globalDoNotTrack

\* flag === 1 || flag === true || flag === '1' || flag === 'yes'
IsDoNotTrack(h) ==
    \/ DntFlag(h) = "n:1"
    \/ DntFlag(h) = "true"
    \/ DntFlag(h) = "s:1"
    \/ DntFlag(h) = "s:yes"

NoDnt == [called |-> FALSE]

CallIsDoNotTrack ==
    /\ built = "built"
    /\ dntResult' = [called |-> TRUE, source |-> DntSource(host), flag |-> DntFlag(host),
                     result |-> IsDoNotTrack(host)]
    /\ UNCHANGED <<host, options, built, ret, hasCors, postResults, fetchReq,
                   clients, handler, lastReq, calls>>

----------------------------------------------------------------------------
(* Specifications of the platform descriptor *)

NoHandler == [pc |-> "idle"]

NoReq == [made |-> FALSE]

NoCalls == [named |-> 0, deprecated |-> 0, warnings |-> 0, threw |-> 0]

ShimIdle ==
    /\ clients = <<>>
    /\ handler = NoHandler
    /\ lastReq = NoReq
    /\ calls = NoCalls

PlatformIdle ==
    /\ built = "unbuilt"
    /\ ret = NoPlatform
    /\ hasCors = "undefined"
    /\ postResults = <<>>
    /\ fetchReq = NoFetchReq
    /\ dntResult = NoDnt

\* every combination of host capabilities and of the options the builder reads
InitBuild ==
    /\ \E g \in BOOLEAN, x \in XhrKinds, f \in BOOLEAN, e \in BOOLEAN,
          p \in PolyfillKinds, s \in StorageKinds :
         host = [DefaultHost EXCEPT !.globalBound = g, !.xhr = x, !.fetch = f,
                                    !.eventSource = e, !.polyfill = p,
                                    !.localStorage = s]
    /\ \E pr \in BOOLEAN, u \in BOOLEAN :
         options = [DefaultOptions EXCEPT !.present = pr, !.useReport = u]
    /\ PlatformIdle
    /\ ShimIdle

SpecBuild == InitBuild /\ [][BuildPlatform]_vars

InitHttp ==
    /\ \E g \in BOOLEAN, x \in XhrKinds, f \in BOOLEAN :
         host = [DefaultHost EXCEPT !.globalBound = g, !.xhr = x, !.fetch = f]
    /\ options = DefaultOptions
    /\ PlatformIdle
    /\ ShimIdle

NextHttp ==
    \/ BuildPlatform
    \/ HttpAllowsPost
    \/ HostSetXhr
    \/ HostSetFetch
    \/ FetchHttpRequest
    \/ FetchResponds
    \/ FetchRejects

SpecHttp == InitHttp /\ [][NextHttp]_vars

InitDnt ==
    /\ \E n \in BOOLEAN, a \in DntValues, b \in DntValues, c \in DntValues :
         host = [DefaultHost EXCEPT !.navigator = n, !.navDoNotTrack = a,
                                    !.msDoNotTrack = b, !.globalDoNotTrack = c]
    /\ options = DefaultOptions
    /\ PlatformIdle
    /\ ShimIdle

NextDnt ==
    \/ BuildPlatform
    \/ CallIsDoNotTrack

SpecDnt == InitDnt /\ [][NextDnt]_vars

----------------------------------------------------------------------------
(* initialize: the shim of index.js *)

ClientIds == 1..Len(clients)

ShimUnchanged == UNCHANGED <<options, built, ret, hasCors, postResults, fetchReq, dntResult>>

\* the emissions of goalsEvent are counted as 0, 1 and "2 or more"
EmitCount(n) == IF n < 2 THEN n + 1 ELSE n

EmitGoalsNoResolve(c, removed) ==
    [c EXCEPT !.emits = EmitCount(@),
              !.goalsListener = c.goalsListener /\ ~removed]

\* emitter.emit(goalsEvent) on one client's emitter.  The listener of the
\* goalsPromise executor calls emitter.off and resolve(); resolve() on a resolved
\* promise does nothing.  Whether off() finds the listener depends on what the
\* shared core's on() returned (removed).
EmitGoals(c, removed) ==
    IF c.goalsListener
    THEN [c EXCEPT !.emits = EmitCount(@),
                   !.goalsPromise = "resolved",
                   !.goalsListener = ~removed]
    ELSE [c EXCEPT !.emits = EmitCount(@)]

\* hasDOM && validatedOptions.fetchGoals
UsesGoalManager(h, o) == h.hasDOM /\ o.fetchGoals

DefersStartWhileLoading(h) == h.hasDOM /\ h.readyState = "loading"

\* hasDOM && document.readyState !== 'complete'
DefersStart(h) == h.hasDOM /\ h.readyState # "complete"

\* the client as initialize leaves it, given the descriptor it built
NewClient(h, o, platform, removed) ==
    LET fresh == [platform |-> platform,
                  goalsPromise |-> "pending",
                  goalsListener |-> TRUE,
                  goalManager |-> UsesGoalManager(h, o),
                  emits |-> 0,
                  initReadyState |-> IF h.hasDOM THEN h.readyState ELSE "none",
                  loadListener |-> DefersStart(h),
                  startCalls |-> IF DefersStart(h) THEN 0 ELSE 1,
                  pageListeners |-> h.hasDOM,
                  lastFlush |-> "none",
                  waiting |-> 0,
                  observed |-> 0]
    IN  IF UsesGoalManager(h, o) THEN fresh ELSE EmitGoals(fresh, removed)

\* the body of initialize(env, user, options): the exception of the descriptor's
\* builder propagates, otherwise the client is returned.  counted is the calls
\* record with the entry point's own counters advanced.
InitializeBody(o, counted) ==
    /\ handler.pc = "idle"
    /\ calls.named + calls.deprecated < MaxClients
    /\ LET platform == MakeBrowserPlatform(host, o) IN
         IF platform.threw
         THEN /\ clients' = clients
              /\ calls' = [counted EXCEPT !.threw = @ + 1]
         ELSE /\ clients' = Append(clients, NewClient(host, o, platform, host.offRemoves))
              /\ calls' = counted
    /\ UNCHANGED <<host, handler, lastReq>>
    /\ ShimUnchanged

Initialize == InitializeBody(options, [calls EXCEPT !.named = @ + 1])

DeprecationWarningsOnce(h, earlier) == IF h.consoleWarn /\ earlier = 0 THEN 1 ELSE 0

\* console && console.warn && console.warn(...)
DeprecationWarnings(h, earlier) == IF h.consoleWarn THEN 1 ELSE 0

\* deprecatedInitialize: warn, then return initialize(env, user, options)
DeprecatedInitialize ==
    InitializeBody(options,
                   [calls EXCEPT !.deprecated = @ + 1,
                                 !.warnings = @ + DeprecationWarnings(host, calls.deprecated)])

----------------------------------------------------------------------------
(* Readiness: the goal manager's callback and waitUntilGoalsReady *)

\* the goal manager calls the callback it was given: () => emitter.emit(goalsEvent)
GoalManagerReady(i) ==
    /\ handler.pc = "idle"
    /\ i \in ClientIds
    /\ clients[i].goalManager
    /\ clients' = [clients EXCEPT ![i] = EmitGoals(@, host.offRemoves)]
    /\ clients' # clients
    /\ UNCHANGED <<host, handler, lastReq, calls>>
    /\ ShimUnchanged

\* a caller takes client.waitUntilGoalsReady() and attaches a then-callback
WaitUntilGoalsReady(i) ==
    /\ handler.pc = "idle"
    /\ i \in ClientIds
    /\ clients[i].waiting + clients[i].observed < MaxObservers
    /\ clients' = [clients EXCEPT ![i].waiting = @ + 1]
    /\ UNCHANGED <<host, handler, lastReq, calls>>
    /\ ShimUnchanged

\* the host runs a then-callback of the resolved goalsPromise
RunObserver(i) ==
    /\ handler.pc = "idle"
    /\ i \in ClientIds
    /\ clients[i].goalsPromise = "resolved"
    /\ clients[i].waiting > 0
    /\ clients' = [clients EXCEPT ![i].waiting = @ - 1, ![i].observed = @ + 1]
    /\ UNCHANGED <<host, handler, lastReq, calls>>
    /\ ShimUnchanged

----------------------------------------------------------------------------
(* Start sequencing: the document's loading and the load event *)

\* the document goes from loading to interactive, or from interactive to complete
HostReadyStateAdvance ==
    /\ handler.pc = "idle"
    /\ host.hasDOM
    /\ host.readyState # "complete"
    /\ host' = [host EXCEPT !.readyState = IF @ = "loading" THEN "interactive" ELSE "complete"]
    /\ UNCHANGED <<clients, handler, lastReq, calls>>
    /\ ShimUnchanged

\* the effect of the load event on one client: clientVars.start, if it was registered
StartOnLoad(c) == IF c.loadListener THEN [c EXCEPT !.startCalls = @ + 1] ELSE c

\* the host fires its one load event, after readyState became complete
LoadEvent ==
    /\ handler.pc = "idle"
    /\ host.hasDOM
    /\ host.readyState = "complete"
    /\ ~host.loadFired
    /\ host' = [host EXCEPT !.loadFired = TRUE]
    /\ clients' = [i \in ClientIds |-> StartOnLoad(clients[i])]
    /\ UNCHANGED <<handler, lastReq, calls>>
    /\ ShimUnchanged

----------------------------------------------------------------------------
(* The hidden-page path: syncFlush, handleVisibilityChange and httpRequest *)

\* the clients whose listeners the document and window hold, in registration order
RECURSIVE ListenersFrom(_)
ListenersFrom(i) ==
    IF i > Len(clients) THEN <<>>
    ELSE IF clients[i].pageListeners THEN <<i>> \o ListenersFrom(i + 1)
    ELSE ListenersFrom(i + 1)

Dispatch(event, queue) ==
    IF queue = <<>> THEN NoHandler
    ELSE [pc |-> "dispatch", event |-> event, queue |-> queue]

\* the host fires pagehide on window
HostPageHide ==
    /\ handler.pc = "idle"
    /\ host.hasDOM
    /\ ListenersFrom(1) # <<>>
    /\ handler' = Dispatch("pagehide", ListenersFrom(1))
    /\ UNCHANGED <<host, clients, lastReq, calls>>
    /\ ShimUnchanged

\* the page becomes hidden or visible and the host fires visibilitychange on document
HostVisibilityChange ==
    /\ handler.pc = "idle"
    /\ host.hasDOM
    /\ host' = [host EXCEPT !.visibilityState = IF @ = "hidden" THEN "visible" ELSE "hidden"]
    /\ handler' = Dispatch("visibilitychange", ListenersFrom(1))
    /\ UNCHANGED <<clients, lastReq, calls>>
    /\ ShimUnchanged

\* handleVisibilityChange's test; pagehide calls syncFlush directly
RunsSyncFlush(event, h) == event = "pagehide" \/ h.visibilityState = "hidden"

\* the next listener is called.  syncFlush sets platform.synchronousFlush = true
\* and calls client.flush(); handleVisibilityChange on a visible page returns.
HandlerEnter ==
    /\ handler.pc = "dispatch"
    /\ LET i == Head(handler.queue) IN
         IF RunsSyncFlush(handler.event, host)
         THEN /\ clients' = [clients EXCEPT ![i].platform.synchronousFlush = TRUE]
              /\ handler' = [handler EXCEPT !.pc = "inFlush"] @@ [cur |-> i, reqs |-> 0]
         ELSE /\ clients' = clients
              /\ handler' = Dispatch(handler.event, Tail(handler.queue))
    /\ UNCHANGED <<host, lastReq, calls>>
    /\ ShimUnchanged

LegacySyncArgIgnoringDisable(flag, disable) == BoolToNumber(flag)

\* ret.synchronousFlush & !disableSyncFlush
LegacySyncArg(flag, disable) == BitAnd(BoolToNumber(flag), BoolToNumber(~Truthy(disable)))

\* One call of the legacy httpRequest of client i's descriptor: the argument
\* handed to newHttpRequest is computed, then the flag is cleared.
LegacyHttpRequest(i, inFlush, index) ==
    /\ clients' = [clients EXCEPT ![i].platform.synchronousFlush = FALSE]
    /\ lastReq' = [made |-> TRUE, client |-> i, inFlush |-> inFlush, index |-> index,
                   flagBefore |-> clients[i].platform.synchronousFlush,
                   disable |-> clients[i].platform.disableSyncFlush,
                   syncArg |-> LegacySyncArg(clients[i].platform.synchronousFlush,
                                             clients[i].platform.disableSyncFlush),
                   flagAfter |-> clients'[i].platform.synchronousFlush]

\* client.flush(), still on the stack, sends a request through the descriptor
FlushRequest ==
    /\ handler.pc = "inFlush"
    /\ handler.reqs < MaxFlushRequests
    /\ LET i == handler.cur IN
         /\ clients[i].platform.httpRequest # "absent"
         /\ IF clients[i].platform.httpRequest = "legacy"
            THEN LegacyHttpRequest(i, TRUE, handler.reqs + 1)
            ELSE UNCHANGED <<clients, lastReq>>
    /\ handler' = [handler EXCEPT !.reqs = @ + 1]
    /\ UNCHANGED <<host, calls>>
    /\ ShimUnchanged

FlagAfterFlushResetOnResolve(fate) == fate = "rejects"

\* platform.synchronousFlush = false, whatever becomes of flush's promise
FlagAfterFlush(fate) == FALSE

\* client.flush() returns its promise, which will resolve or reject; the rejection
\* is swallowed by catch(() => {}); the flag is cleared and syncFlush returns
SyncFlushEnd ==
    /\ handler.pc = "inFlush"
    /\ \E fate \in {"resolves", "rejects"} :
         clients' = [clients EXCEPT ![handler.cur].platform.synchronousFlush = FlagAfterFlush(fate),
                                    ![handler.cur].lastFlush = fate]
    /\ handler' = Dispatch(handler.event, Tail(handler.queue))
    /\ UNCHANGED <<host, lastReq, calls>>
    /\ ShimUnchanged

\* the shared core sends a request while no listener of the shim is running
\* (polling, a timed flush, a retry)
CoreRequest(i) ==
    /\ handler.pc = "idle"
    /\ i \in ClientIds
    /\ clients[i].platform.httpRequest = "legacy"
    /\ LegacyHttpRequest(i, FALSE, 0)
    /\ UNCHANGED <<host, handler, calls>>
    /\ ShimUnchanged

----------------------------------------------------------------------------
(* Specifications of the shim *)

DisableValues == {"undefined", "false", "true"}

Transports == {<<"cors", TRUE>>, <<"absent", TRUE>>, <<"absent", FALSE>>}

\* The hidden-page path: every transport, with and without a DOM, every value
\* of disableSyncEventPost; the document is loaded.
InitFlush ==
    /\ \E g \in BOOLEAN, t \in Transports, d \in BOOLEAN :
         host = [DefaultHost EXCEPT !.globalBound = g, !.xhr = t[1], !.fetch = t[2],
                                    !.hasDOM = d]
    /\ \E ds \in DisableValues :
         options = [DefaultOptions EXCEPT !.disableSyncEventPost = ds]
    /\ PlatformIdle
    /\ ShimIdle

NextFlush ==
    \/ Initialize
    \/ HostPageHide
    \/ HostVisibilityChange
    \/ HandlerEnter
    \/ FlushRequest
    \/ SyncFlushEnd
    \/ \E i \in 1..MaxClients : CoreRequest(i)

SpecFlush == InitFlush /\ [][NextFlush]_vars

\* Entry points and start sequencing: with and without a DOM, every readyState,
\* fetchGoals on and off, console.warn present or not.
InitStart ==
    /\ \E g \in BOOLEAN, w \in BOOLEAN, d \in BOOLEAN, off \in BOOLEAN,
          r \in {"loading", "interactive", "complete"} :
         host = [DefaultHost EXCEPT !.globalBound = g, !.consoleWarn = w, !.hasDOM = d,
                                    !.offRemoves = off,
                                    !.readyState = IF d THEN r ELSE "complete",
                                    !.loadFired = ~d]
    /\ \E fg \in BOOLEAN :
         options = [DefaultOptions EXCEPT !.fetchGoals = fg]
    /\ PlatformIdle
    /\ ShimIdle

NextStart ==
    \/ Initialize
    \/ DeprecatedInitialize
    \/ \E i \in 1..MaxClients : GoalManagerReady(i)
    \/ HostReadyStateAdvance
    \/ LoadEvent

SpecStart == InitStart /\ [][NextStart]_vars

\* Readiness: with and without a DOM, fetchGoals on and off, off() finding the
\* listener or not; the document is loaded.
InitGoals ==
    /\ \E d \in BOOLEAN, off \in BOOLEAN :
         host = [DefaultHost EXCEPT !.hasDOM = d, !.offRemoves = off]
    /\ \E fg \in BOOLEAN :
         options = [DefaultOptions EXCEPT !.fetchGoals = fg]
    /\ PlatformIdle
    /\ ShimIdle

NextGoals ==
    \/ Initialize
    \/ \E i \in 1..MaxClients : GoalManagerReady(i)
    \/ \E i \in 1..MaxClients : WaitUntilGoalsReady(i)
    \/ \E i \in 1..MaxClients : RunObserver(i)

\* The goal manager calls its callback, and the host runs the callbacks of a
\* resolved promise.
FairGoals ==
    /\ InitGoals
    /\ [][NextGoals]_vars
    /\ \A i \in 1..MaxClients : WF_vars(GoalManagerReady(i))
    /\ \A i \in 1..MaxClients : WF_vars(RunObserver(i))

----------------------------------------------------------------------------
(* Properties *)

\* C1: platform.synchronousFlush of a client is true only while that client's
\* syncFlush is inside its client.flush() call; in every other state, and so
\* once the listener has returned, it is false, whether flush's promise
\* resolves or rejects.
C1_FlagOnlyDuringFlush ==
    \A i \in ClientIds :
        clients[i].platform.synchronousFlush => (handler.pc = "inFlush" /\ handler.cur = i)

\* a hidden-page listener has run to its end on the fetch transport (where no
\* request clears the flag), flush's promise rejects, and the flag is false
C1_Witness ==
    \E i \in ClientIds :
        /\ clients[i].lastFlush = "rejects"
        /\ clients[i].platform.httpRequest = "fetch"
        /\ handler.pc = "idle"
        /\ ~clients[i].platform.synchronousFlush

\* C2: once resolved the goalsPromise stays resolved; it is resolved as soon as
\* goalsEvent was emitted once, and at once on the path without a goal manager;
\* every client's promise is eventually resolved, and every then-callback taken
\* from waitUntilGoalsReady() eventually runs.
C2_ReadinessFiresOnce ==
    /\ [][\A i \in 1..MaxClients :
            (i \in ClientIds /\ clients[i].goalsPromise = "resolved")
                => clients'[i].goalsPromise = "resolved"]_vars
    /\ [](\A i \in ClientIds :
            (clients[i].emits > 0 \/ ~clients[i].goalManager)
                <=> clients[i].goalsPromise = "resolved")
    /\ \A i \in 1..MaxClients :
            (i \in ClientIds) ~> (i \in ClientIds /\ clients[i].goalsPromise = "resolved")
    /\ \A i \in 1..MaxClients :
            (i \in ClientIds /\ clients[i].waiting > 0)
                ~> (i \in ClientIds /\ clients[i].waiting = 0 /\ clients[i].observed > 0)

\* on the goal manager's path the event was emitted twice and a then-callback ran
C2_Witness ==
    \E i \in ClientIds :
        /\ clients[i].goalManager
        /\ clients[i].emits = 2
        /\ clients[i].goalsPromise = "resolved"
        /\ clients[i].observed > 0

\* C3: every call of httpAllowsPost() returns what the first call returned,
\* whatever happens to XMLHttpRequest and fetch between the calls.
C3_SameAsFirstCall ==
    \A k \in 1..Len(postResults) : postResults[k] = postResults[1]

\* C4: the promise of the fetch strategy's httpRequest resolves to the record
\* {status, header(key), body} built from the response.
C4_FetchResolvesToRecord ==
    fetchReq.state = "resolved" =>
        /\ fetchReq.value.kind = "object"
        /\ fetchReq.value = AdaptedResponse(fetchReq.response)

\* a host offers a streaming API if it has EventSource or a polyfill constructor
HostStreaming(h) ==
    h.eventSource \/ h.polyfill \in {"function", "functionOptions", "functionMethod"}

\* C5: eventSourceFactory is present only on a host with a streaming API; when
\* present, the constructor it calls exists on the host: the polyfill if useReport
\* is set and the polyfill is a function advertising supportedOptions.method,
\* else EventSource; with no streaming API the factory and eventSourceIsActive
\* are both absent.
C5_StreamingFactory ==
    built = "built" =>
        /\ ret.eventSourceFactory => HostStreaming(host)
        /\ ret.eventSourceFactory =>
              IF options.present /\ options.useReport /\ host.polyfill = "functionMethod"
              THEN ret.eventSourceConstructor = "EventSourcePolyfill"
              ELSE ret.eventSourceConstructor = "EventSource" /\ host.eventSource
        /\ ~HostStreaming(host) => (~ret.eventSourceFactory /\ ~ret.eventSourceIsActive)

\* a descriptor built on a host with no streaming API has neither field
C5_Witness ==
    /\ built = "built"
    /\ ~HostStreaming(host)
    /\ ~ret.eventSourceFactory
    /\ ~ret.eventSourceIsActive

\* C6: the builder never throws because of storage; the localStorage field is
\* null if reading the host's localStorage throws, absent (undefined) if the host
\* has none, and a record if storage is available.
C6_StorageField ==
    /\ built = "threw" => ~host.globalBound
    /\ built = "built" =>
          /\ host.localStorage = "throws" => ret.localStorage = "null"
          /\ host.localStorage = "absent" => ret.localStorage = "undefined"
          /\ host.localStorage = "present" => ret.localStorage = "record"

\* a descriptor built on a host whose localStorage throws
C6_Witness ==
    /\ built = "built"
    /\ host.localStorage = "throws"
    /\ ret.localStorage = "null"

\* C7: isDoNotTrack() reads navigator.doNotTrack if defined, else
\* navigator.msDoNotTrack if defined, else the global doNotTrack, and returns true
\* exactly when the value read is one of '1', 1, true, 'yes'.
C7_DoNotTrack ==
    dntResult.called =>
        LET chosen == IF host.navigator /\ host.navDoNotTrack # "undefined"
                         THEN host.navDoNotTrack
                      ELSE IF host.navigator /\ host.msDoNotTrack # "undefined"
                         THEN host.msDoNotTrack
                      ELSE host.globalDoNotTrack
        IN  /\ dntResult.flag = chosen
            /\ dntResult.result = (chosen \in {"s:1", "n:1", "true", "s:yes"})

\* navigator.doNotTrack is '0' and the global doNotTrack is '1': the answer is false
C7_Witness ==
    /\ dntResult.called
    /\ host.navigator
    /\ host.navDoNotTrack = "s:0"
    /\ host.globalDoNotTrack = "s:1"
    /\ ~dntResult.result

\* C8: a call of the deprecated initialize leaves what the named initialize
\* leaves for the same arguments (the same new client, or the same exception),
\* and adds one console warning if console.warn exists, none otherwise.
C8_DeprecatedSameAsNamed ==
    [][calls'.deprecated # calls.deprecated =>
         /\ calls'.warnings = calls.warnings + (IF host.consoleWarn THEN 1 ELSE 0)
         /\ calls'.named = calls.named
         /\ LET platform == MakeBrowserPlatform(host, options) IN
              IF platform.threw
              THEN clients' = clients /\ calls'.threw = calls.threw + 1
              ELSE /\ clients' = Append(clients,
                                        NewClient(host, options, platform, host.offRemoves))
                   /\ calls'.threw = calls.threw]_vars

\* two deprecated calls returned clients and warned twice
C8_Witness ==
    /\ calls.deprecated = 2
    /\ calls.warnings = 2
    /\ Len(clients) = 2

\* C9: the argument the legacy httpRequest hands on is truthy exactly when the
\* flag was true at the call and disableSyncEventPost is not set; the call leaves
\* the flag false; only the first request of a hidden-page flush can be
\* synchronous, and a request outside such a flush never is.
C9_SyncOnlyFirstInFlush ==
    lastReq.made =>
        /\ NumberTruthy(lastReq.syncArg) = (lastReq.flagBefore /\ ~Truthy(lastReq.disable))
        /\ ~lastReq.flagAfter
        /\ NumberTruthy(lastReq.syncArg) => (lastReq.inFlush /\ lastReq.index = 1)
        /\ ~lastReq.inFlush => lastReq.syncArg = 0

\* the first request of a hidden-page flush was handed a truthy argument
C9_Witness ==
    /\ lastReq.made
    /\ lastReq.inFlush
    /\ lastReq.index = 1
    /\ lastReq.syncArg = 1

\* C10: a client initialized while a document was present and not complete has
\* start() called not at all before the load event and once when it has fired;
\* any other client has start() called once, inside initialize.
C10_StartSequencing ==
    \A i \in ClientIds :
        LET deferred == host.hasDOM /\ clients[i].initReadyState # "complete"
        IN  clients[i].startCalls = IF deferred /\ ~host.loadFired THEN 0 ELSE 1

\* a client initialized while the document was loading, after the load event
C10_Witness ==
    \E i \in ClientIds :
        /\ clients[i].initReadyState = "loading"
        /\ host.loadFired
        /\ clients[i].startCalls = 1

====
